---------------------------- MODULE Spec2Model ----------------------------
(***************************************************************************)
(* The FeatureCollection object protocol (src/src/feature_collection.rs)   *)
(* and the Position abstraction (src/src/position.rs) of the geojson       *)
(* crate.                                                                  *)
(*                                                                         *)
(* Every operation of the two files is a pure function of its arguments.   *)
(* The state machine below is a client of the library: it holds a          *)
(* FeatureCollection built by direct field assignment or a JSON value      *)
(* received from outside, and applies the library's entry points to it.    *)
(***************************************************************************)
EXTENDS Integers, Sequences, FiniteSets

(***************************************************************************)
(* Bounds of the model.                                                    *)
(***************************************************************************)
MaxBbox == 2        \* longest bbox of a FeatureCollection built in memory
MaxBboxIn == 4      \* longest "bbox" array of a received JSON object
MaxFeatures == 2    \* longest feature sequence
MaxForeign == 2     \* most foreign members of a FeatureCollection built in memory
MaxEntries == 4     \* most entries of a received JSON object
MaxCoords == 3      \* longest coordinate array handed to Position::from_json_value

(***************************************************************************)
(* f64.  Ordinates are never computed with, only moved around, so an f64   *)
(* is a token.  NaN stands for the non-finite values, which JSON cannot    *)
(* hold.                                                                   *)
(***************************************************************************)
Finite == {"1.5", "2.5"}
NaN == "NaN"
F64 == Finite \cup {NaN}

SeqsUpTo(S, n) == UNION {[1..k -> S] : k \in 0..n}

(***************************************************************************)
(* Option<T> and Result<T, Error>.  An aborted call (panic) returns no     *)
(* value to its caller; it is the third outcome.                           *)
(***************************************************************************)
None == [some |-> FALSE]
Some(x) == [some |-> TRUE, v |-> x]

Ok(x) == [r |-> "Ok", v |-> x]
Err(e) == [r |-> "Err", e |-> e]
Panic(m) == [r |-> "Panic", msg |-> m]

(***************************************************************************)
(* JsonValue: the six variants.  An object is the sequence of its entries  *)
(* <<key, value>>, keys distinct, in insertion order.                      *)
(***************************************************************************)
Null == [t |-> "null"]
Bool(b) == [t |-> "bool", b |-> b]
Num(n) == [t |-> "num", n |-> n]
Str(s) == [t |-> "str", s |-> s]
Arr(a) == [t |-> "arr", a |-> a]
Obj(o) == [t |-> "obj", o |-> o]

KeysOf(o) == {o[i][1] : i \in 1..Len(o)}
KeySeq(o) == [i \in 1..Len(o) |-> o[i][1]]
Get(o, k) == o[CHOOSE i \in 1..Len(o) : o[i][1] = k][2]
Distinct(o) == \A i, j \in 1..Len(o) : o[i][1] = o[j][1] => i = j

\* Map::insert: an existing key keeps its place and takes the new value.
Insert(o, k, v) ==
    IF k \in KeysOf(o)
    THEN [i \in 1..Len(o) |-> IF o[i][1] = k THEN <<k, v>> ELSE o[i]]
    ELSE Append(o, <<k, v>>)

\* Map::remove: the other entries keep their order.
Remove(o, k) == SelectSeq(o, LAMBDA e : e[1] # k)

\* Map == Map: the same keys with the same values.
MapEq(a, b) == {a[i] : i \in 1..Len(a)} = {b[i] : i \in 1..Len(b)}

\* serde_json::to_value of an f64: a non-finite number becomes null.
F64ToValue(x) == IF x \in Finite THEN Num(x) ELSE Null

\* JsonValue::as_f64
AsF64(j) == IF j.t = "num" THEN Some(j.n) ELSE None

(***************************************************************************)
(* Feature is an external collaborator, opaque here: a feature is its      *)
(* identity, and its JSON form is an object tagged "Feature".              *)
(***************************************************************************)
Feats == {"f1", "f2"}

FeatureToValue(f) == Obj(<< <<"type", Str("Feature")>>, <<"id", Str(f)>> >>)

FeatureFromValue(j) ==
    IF /\ j.t = "obj"
       /\ Len(j.o) = 2
       /\ j.o[1] = <<"type", Str("Feature")>>
       /\ j.o[2][1] = "id"
       /\ j.o[2][2].t = "str"
       /\ j.o[2][2].s \in Feats
    THEN Ok(j.o[2][2].s)
    ELSE Err([kind |-> "TypeMismatch", context |-> "feature"])

(***************************************************************************)
(* Field extraction helpers (crate::util).  Each takes the object and      *)
(* gives back its result together with the object it leaves behind.        *)
(***************************************************************************)
\* util::expect_type: the "type" entry is taken out of the object.  A tag
\* that is absent, or no string, is extracted as the empty tag, which
\* matches no type name: the caller fails with ExpectedType on anything but
\* an exact match.
expect_type(object) ==
    IF "type" \in KeysOf(object)
    THEN LET tag == Get(object, "type") IN
         [res |-> IF tag.t = "str" THEN Ok(tag.s) ELSE Ok(""),
          obj |-> Remove(object, "type")]
    ELSE [res |-> Ok(""), obj |-> object]

\* util::get_bbox: an optional array of numbers, in order.
get_bbox(object) ==
    IF "bbox" \notin KeysOf(object)
    THEN [res |-> Ok(None), obj |-> object]
    ELSE LET b == Get(object, "bbox") IN
         [res |-> IF b.t # "arr"
                  THEN Err([kind |-> "TypeMismatch", context |-> "bbox"])
                  ELSE IF \E i \in 1..Len(b.a) : ~AsF64(b.a[i]).some
                  THEN Err([kind |-> "TypeMismatch", context |-> "bbox"])
                  ELSE Ok(Some([i \in 1..Len(b.a) |-> AsF64(b.a[i]).v])),
          obj |-> Remove(object, "bbox")]

\* util::get_features: a required array of Feature objects, in order.
get_features(object) ==
    IF "features" \notin KeysOf(object)
    THEN [res |-> Err([kind |-> "MissingField", context |-> "features"]),
          obj |-> object]
    ELSE LET f == Get(object, "features") IN
         [res |-> IF f.t # "arr"
                  THEN Err([kind |-> "TypeMismatch", context |-> "features"])
                  ELSE IF \E i \in 1..Len(f.a) : FeatureFromValue(f.a[i]).r # "Ok"
                  THEN Err([kind |-> "TypeMismatch", context |-> "feature"])
                  ELSE Ok([i \in 1..Len(f.a) |-> FeatureFromValue(f.a[i]).v]),
          obj |-> Remove(object, "features")]

\* util::get_foreign_members: what is left of the object, None when nothing is.
get_foreign_members(object) ==
    IF object = <<>> THEN Ok(None) ELSE Ok(Some(object))

(***************************************************************************)
(* FeatureCollection                                                       *)
(***************************************************************************)
FeatureCollection(b, f, m) == [bbox |-> b, features |-> f, foreign_members |-> m]

\* #[derive(PartialEq)]: field by field; f64 == f64 is false on NaN.
BboxEq(a, b) ==
    /\ a.some = b.some
    /\ a.some => /\ Len(a.v) = Len(b.v)
                 /\ \A i \in 1..Len(a.v) : a.v[i] = b.v[i] /\ a.v[i] # NaN

MembersEq(a, b) == a.some = b.some /\ (a.some => MapEq(a.v, b.v))

FcEq(a, b) ==
    /\ BboxEq(a.bbox, b.bbox)
    /\ a.features = b.features
    /\ MembersEq(a.foreign_members, b.foreign_members)

BboxToValue(bbox) == Arr([i \in 1..Len(bbox) |-> F64ToValue(bbox[i])])
FeaturesToValue(features) == Arr([i \in 1..Len(features) |-> FeatureToValue(features[i])])

\* Faulty variant of serialize: "features" is left out when there are none.
serializeSkipsEmpty(fc) ==
       << <<"type", Str("FeatureCollection")>> >>
    \o (IF fc.bbox.some THEN << <<"bbox", BboxToValue(fc.bbox.v)>> >> ELSE <<>>)
    \o (IF fc.foreign_members.some THEN fc.foreign_members.v ELSE <<>>)
    \o (IF fc.features # <<>>
        THEN << <<"features", FeaturesToValue(fc.features)>> >> ELSE <<>>)

\* impl Serialize for FeatureCollection: the entries handed to the
\* serializer, one per serialize_entry call, in call order.
serialize(fc) ==
       << <<"type", Str("FeatureCollection")>> >>
    \o (IF fc.bbox.some THEN << <<"bbox", BboxToValue(fc.bbox.v)>> >> ELSE <<>>)
    \o (IF fc.foreign_members.some THEN fc.foreign_members.v ELSE <<>>)
    \o << <<"features", FeaturesToValue(fc.features)>> >>

\* The JSON object a map serializer builds from emitted entries: each entry
\* is inserted in turn.
RECURSIVE InsertAll(_, _)
InsertAll(o, entries) ==
    IF entries = <<>> THEN o
    ELSE InsertAll(Insert(o, entries[1][1], entries[1][2]), Tail(entries))

\* Faulty variant of JsonObjectFrom: bbox goes in before features, the order of
\* the Serialize implementation.
JsonObjectFromBboxFirst(fc) ==
    LET m1 == Insert(<<>>, "type", Str("FeatureCollection"))
        m2 == IF fc.bbox.some THEN Insert(m1, "bbox", BboxToValue(fc.bbox.v)) ELSE m1
        m3 == Insert(m2, "features", FeaturesToValue(fc.features))
    IN  IF fc.foreign_members.some THEN InsertAll(m3, fc.foreign_members.v) ELSE m3

\* impl From<&FeatureCollection> for JsonObject
JsonObjectFrom(fc) ==
    LET m1 == Insert(<<>>, "type", Str("FeatureCollection"))
        m2 == Insert(m1, "features", FeaturesToValue(fc.features))
        m3 == IF fc.bbox.some THEN Insert(m2, "bbox", BboxToValue(fc.bbox.v)) ELSE m2
    IN  IF fc.foreign_members.some THEN InsertAll(m3, fc.foreign_members.v) ELSE m3

\* Faulty variant of TryFromObject: the bbox is extracted before the type is looked at.
TryFromObjectBboxFirst(object) ==
    LET b == get_bbox(object) IN
    IF b.res.r # "Ok" THEN b.res
    ELSE LET t == expect_type(b.obj) IN
         IF t.res.r # "Ok" THEN t.res
         ELSE IF t.res.v = "FeatureCollection"
         THEN LET f == get_features(t.obj) IN
              IF f.res.r # "Ok" THEN f.res
              ELSE LET m == get_foreign_members(f.obj) IN
                   IF m.r # "Ok" THEN m
                   ELSE Ok(FeatureCollection(b.res.v, f.res.v, m.v))
         ELSE Err([kind |-> "ExpectedType", expected |-> "FeatureCollection",
                   actual |-> t.res.v])

\* Faulty variant of TryFromObject: the foreign members are taken from the object
\* as it came in, not from what the extractions left of it.
TryFromObjectKeepsAll(object) ==
    LET t == expect_type(object) IN
    IF t.res.r # "Ok" THEN t.res
    ELSE IF t.res.v = "FeatureCollection"
    THEN LET b == get_bbox(t.obj) IN
         IF b.res.r # "Ok" THEN b.res
         ELSE LET f == get_features(b.obj) IN
              IF f.res.r # "Ok" THEN f.res
              ELSE LET m == get_foreign_members(object) IN
                   IF m.r # "Ok" THEN m
                   ELSE Ok(FeatureCollection(b.res.v, f.res.v, m.v))
    ELSE Err([kind |-> "ExpectedType", expected |-> "FeatureCollection",
              actual |-> t.res.v])

\* Faulty variant of TryFromObject: the features come back in reverse order.
TryFromObjectReversed(object) ==
    LET t == expect_type(object) IN
    IF t.res.r # "Ok" THEN t.res
    ELSE IF t.res.v = "FeatureCollection"
    THEN LET b == get_bbox(t.obj) IN
         IF b.res.r # "Ok" THEN b.res
         ELSE LET f == get_features(b.obj) IN
              IF f.res.r # "Ok" THEN f.res
              ELSE LET m == get_foreign_members(f.obj) IN
                   IF m.r # "Ok" THEN m
                   ELSE Ok(FeatureCollection(b.res.v,
                            [i \in 1..Len(f.res.v) |-> f.res.v[Len(f.res.v) + 1 - i]],
                            m.v))
    ELSE Err([kind |-> "ExpectedType", expected |-> "FeatureCollection",
              actual |-> t.res.v])

\* impl TryFrom<JsonObject> for FeatureCollection
TryFromObject(object) ==
    LET t == expect_type(object) IN
    IF t.res.r # "Ok" THEN t.res
    ELSE IF t.res.v = "FeatureCollection"
    THEN LET b == get_bbox(t.obj) IN
         IF b.res.r # "Ok" THEN b.res
         ELSE LET f == get_features(b.obj) IN
              IF f.res.r # "Ok" THEN f.res
              ELSE LET m == get_foreign_members(f.obj) IN
                   IF m.r # "Ok" THEN m
                   ELSE Ok(FeatureCollection(b.res.v, f.res.v, m.v))
    ELSE Err([kind |-> "ExpectedType", expected |-> "FeatureCollection",
              actual |-> t.res.v])

\* Faulty variant of TryFromValue: the error does not carry the value it was given.
TryFromValueLosesValue(value) ==
    IF value.t = "obj" THEN TryFromObject(value.o)
    ELSE Err([kind |-> "GeoJsonExpectedObject", value |-> Null])

\* impl TryFrom<JsonValue> for FeatureCollection
TryFromValue(value) ==
    IF value.t = "obj" THEN TryFromObject(value.o)
    ELSE Err([kind |-> "GeoJsonExpectedObject", value |-> value])

from_json_object(object) == TryFromObject(object)
from_json_value(value) == TryFromValue(value)

(***************************************************************************)
(* Position: the three representations.  A position is the sequence of     *)
(* its ordinates; Vec<f64> has any length, (f64, f64) has two and          *)
(* (f64, f64, f64) three.                                                  *)
(***************************************************************************)
Reps == {"Vec", "Tuple2", "Tuple3"}

\* util::expect_array
expect_array(j) ==
    IF j.t = "arr" THEN Ok(j.a)
    ELSE Err([kind |-> "TypeMismatch", context |-> "array"])

\* util::expect_f64
expect_f64(j) ==
    IF AsF64(j).some THEN Ok(AsF64(j).v)
    ELSE Err([kind |-> "TypeMismatch", context |-> "f64"])

\* The first element of the array that is no number, 0 if all are: the
\* element at which a chain of expect_f64(..)? returns.
FirstBad(a) ==
    IF \E i \in 1..Len(a) : expect_f64(a[i]).r # "Ok"
    THEN CHOOSE i \in 1..Len(a) :
            /\ expect_f64(a[i]).r # "Ok"
            /\ \A k \in 1..(i - 1) : expect_f64(a[k]).r = "Ok"
    ELSE 0

AllF64(a) == [i \in 1..Len(a) |-> expect_f64(a[i]).v]

\* <Vec<f64> as Position>::from_json_value
VecFromJsonValue(j) ==
    LET coords_array == expect_array(j) IN
    IF coords_array.r # "Ok" THEN coords_array
    ELSE IF FirstBad(coords_array.v) # 0
         THEN expect_f64(coords_array.v[FirstBad(coords_array.v)])
         ELSE Ok(AllF64(coords_array.v))

\* <(f64, f64) as Position>::from_json_value
Tuple2FromJsonValue(j) ==
    LET coords_array == expect_array(j) IN
    IF coords_array.r # "Ok" THEN coords_array
    ELSE IF Len(coords_array.v) # 2 THEN Panic("not implemented")
    ELSE IF FirstBad(coords_array.v) # 0
         THEN expect_f64(coords_array.v[FirstBad(coords_array.v)])
         ELSE Ok(AllF64(coords_array.v))

\* <(f64, f64, f64) as Position>::from_json_value
Tuple3FromJsonValue(j) ==
    LET coords_array == expect_array(j) IN
    IF coords_array.r # "Ok" THEN coords_array
    ELSE IF Len(coords_array.v) # 3 THEN Panic("not implemented")
    ELSE IF FirstBad(coords_array.v) # 0
         THEN expect_f64(coords_array.v[FirstBad(coords_array.v)])
         ELSE Ok(AllF64(coords_array.v))

PositionFromJsonValue(rp, j) ==
    CASE rp = "Vec" -> VecFromJsonValue(j)
      [] rp = "Tuple2" -> Tuple2FromJsonValue(j)
      [] rp = "Tuple3" -> Tuple3FromJsonValue(j)

\* Position::from_x_y
VecFromXY(a, b) == Ok(<<a, b>>)
Tuple2FromXY(a, b) == Ok(<<a, b>>)
Tuple3FromXY(a, b) == Panic("not implemented")

PositionFromXY(rp, a, b) ==
    CASE rp = "Vec" -> VecFromXY(a, b)
      [] rp = "Tuple2" -> Tuple2FromXY(a, b)
      [] rp = "Tuple3" -> Tuple3FromXY(a, b)

\* Position::x and Position::y.  Vec<f64> indexes the vector, which aborts
\* out of range; a tuple reads its field.
VecX(p) == IF Len(p) >= 1 THEN Ok(p[1]) ELSE Panic("index out of bounds")
VecY(p) == IF Len(p) >= 2 THEN Ok(p[2]) ELSE Panic("index out of bounds")
TupleX(p) == Ok(p[1])
\* Faulty variant of TupleY: y() reads the first field.
TupleYReadsFirst(p) == Ok(p[1])
TupleY(p) == Ok(p[2])

PositionX(rp, p) == IF rp = "Vec" THEN VecX(p) ELSE TupleX(p)
PositionY(rp, p) == IF rp = "Vec" THEN VecY(p) ELSE TupleY(p)

(***************************************************************************)
(* The client.                                                             *)
(*   fc       the FeatureCollection built by direct field assignment       *)
(*   json     the JSON value in hand: received, or produced from fc        *)
(*   emitted  the entries the last Serialize call handed to its serializer *)
(*   result   what the last from_json_object / from_json_value returned    *)
(*   enc      where json comes from                                        *)
(*   dec      the parsing entry point that produced result                 *)
(*   rp       the Position representation in use                           *)
(*   coords   the JSON value handed to Position::from_json_value           *)
(*   ax, ay   the ordinates handed to Position::from_x_y                   *)
(*   pos      what from_json_value / from_x_y returned                     *)
(*   made     the constructor that produced pos                            *)
(*   xres, yres  what x() and y() returned on the position in pos          *)
(***************************************************************************)
VARIABLES fc, json, emitted, result, enc, dec,
          rp, coords, ax, ay, pos, made, xres, yres

fcVars == <<fc, json, emitted, result, enc, dec>>
posVars == <<rp, coords, ax, ay, pos, made, xres, yres>>
vars == <<fcVars, posVars>>

Reserved == {"type", "bbox", "features"}
ForeignKeys == Reserved \cup {"a", "b"}
ForeignVals == {Num("1.5"), Str("s")}

Bboxes == {None} \cup {Some(b) : b \in SeqsUpTo(F64, MaxBbox)}
FeatureSeqs == SeqsUpTo(Feats, MaxFeatures)
ForeignMaps == {o \in SeqsUpTo(ForeignKeys \X ForeignVals, MaxForeign) : Distinct(o)}
Members == {None} \cup {Some(o) : o \in ForeignMaps}

\* Every FeatureCollection a struct literal can build within the bounds.
FeatureCollections ==
    {FeatureCollection(b, f, m) : b \in Bboxes, f \in FeatureSeqs, m \in Members}

\* The values a received object may hold under each key.
TypeVals == {Str("FeatureCollection"), Str("Feature"), Str("featurecollection")}
BboxVals ==
    {Arr(a) : a \in SeqsUpTo({Num(n) : n \in Finite}, MaxBboxIn)}
        \cup {Str("x"), Arr(<<Num("1.5"), Str("x")>>)}
FeaturesVals ==
    {FeaturesToValue(f) : f \in FeatureSeqs}
        \cup {Num("1.5"), Arr(<<FeatureToValue("f1"), Str("x")>>)}
ValsFor(k) ==
    CASE k = "type" -> TypeVals
      [] k = "bbox" -> BboxVals
      [] k = "features" -> FeaturesVals
      [] k = "a" -> {Str("s")}
      [] OTHER -> {Num("1.5")}

KeySeqs ==
    {ks \in SeqsUpTo(ForeignKeys, MaxEntries) :
        \A i, j \in 1..Len(ks) : ks[i] = ks[j] => i = j}

RECURSIVE ObjectsWithKeys(_)
ObjectsWithKeys(ks) ==
    IF ks = <<>> THEN {<<>>}
    ELSE {<< <<ks[1], v>> >> \o rest : v \in ValsFor(ks[1]),
                                       rest \in ObjectsWithKeys(Tail(ks))}

\* A received value that is no object: one of every other variant.
NonObjects ==
    {Null, Bool(TRUE), Num("1.5"), Str("FeatureCollection"),
     Arr(<<Str("FeatureCollection")>>)}

NoResult == [r |-> "none"]
EmptyFc == FeatureCollection(None, <<>>, None)

InitBuilt ==
    /\ fc \in FeatureCollections
    /\ json = Null
    /\ enc = "none"

\* The JSON values received from outside: objects in any key order, and
\* the values that are no object.
InitReceived ==
    /\ fc = EmptyFc
    /\ \/ \E ks \in KeySeqs : \E o \in ObjectsWithKeys(ks) : json = Obj(o)
       \/ json \in NonObjects
    /\ enc = "received"

\* No Position call is under way.
PosIdle ==
    /\ rp = "Vec"
    /\ coords = Null
    /\ ax = "1.5"
    /\ ay = "1.5"
    /\ pos = NoResult
    /\ made = "none"
    /\ xres = NoResult
    /\ yres = NoResult

Init ==
    /\ InitBuilt \/ InitReceived
    /\ emitted = <<>>
    /\ result = NoResult
    /\ dec = "none"
    /\ PosIdle

\* JsonObject::from(&fc)
ToJsonObject ==
    /\ enc = "none"
    /\ json' = Obj(JsonObjectFrom(fc))
    /\ enc' = "to_json_object"
    /\ UNCHANGED <<fc, emitted, result, dec>>
    /\ UNCHANGED posVars

\* fc.serialize(serializer), the serializer building a JSON object
Serialize ==
    /\ enc = "none"
    /\ emitted' = serialize(fc)
    /\ json' = Obj(InsertAll(<<>>, serialize(fc)))
    /\ enc' = "serialize"
    /\ UNCHANGED <<fc, result, dec>>
    /\ UNCHANGED posVars

\* FeatureCollection::from_json_object(object)
FromJsonObject ==
    /\ enc # "none"
    /\ dec = "none"
    /\ json.t = "obj"
    /\ result' = from_json_object(json.o)
    /\ dec' = "from_json_object"
    /\ UNCHANGED <<fc, json, emitted, enc>>
    /\ UNCHANGED posVars

\* FeatureCollection::from_json_value(value)
FromJsonValue ==
    /\ enc # "none"
    /\ dec = "none"
    /\ result' = from_json_value(json)
    /\ dec' = "from_json_value"
    /\ UNCHANGED <<fc, json, emitted, enc>>
    /\ UNCHANGED posVars

Next == ToJsonObject \/ Serialize \/ FromJsonObject \/ FromJsonValue

Spec == Init /\ [][Next]_vars

(***************************************************************************)
(* The client of Position: it picks a representation, builds a position    *)
(* from a JSON value or from two ordinates, and reads x and y of it.       *)
(***************************************************************************)
CoordElems == {Num(n) : n \in Finite} \cup {Str("x")}
CoordValues ==
    {Arr(a) : a \in SeqsUpTo(CoordElems, MaxCoords)}
        \cup {Null, Num("1.5"), Str("x"), Obj(<<>>)}

InitPos ==
    /\ fc = EmptyFc
    /\ json = Null
    /\ enc = "none"
    /\ emitted = <<>>
    /\ result = NoResult
    /\ dec = "none"
    /\ rp \in Reps
    /\ coords \in CoordValues
    /\ ax \in F64
    /\ ay \in F64
    /\ pos = NoResult
    /\ made = "none"
    /\ xres = NoResult
    /\ yres = NoResult

\* Self::from_json_value(&coords)
PosFromJsonValue ==
    /\ made = "none"
    /\ pos' = PositionFromJsonValue(rp, coords)
    /\ made' = "from_json_value"
    /\ UNCHANGED <<rp, coords, ax, ay, xres, yres>>
    /\ UNCHANGED fcVars

\* Self::from_x_y(ax, ay)
PosFromXY ==
    /\ made = "none"
    /\ pos' = PositionFromXY(rp, ax, ay)
    /\ made' = "from_x_y"
    /\ UNCHANGED <<rp, coords, ax, ay, xres, yres>>
    /\ UNCHANGED fcVars

\* position.x()
PosX ==
    /\ pos.r = "Ok"
    /\ xres = NoResult
    /\ xres' = PositionX(rp, pos.v)
    /\ UNCHANGED <<rp, coords, ax, ay, pos, made, yres>>
    /\ UNCHANGED fcVars

\* position.y()
PosY ==
    /\ pos.r = "Ok"
    /\ yres = NoResult
    /\ yres' = PositionY(rp, pos.v)
    /\ UNCHANGED <<rp, coords, ax, ay, pos, made, xres>>
    /\ UNCHANGED fcVars

NextPos == PosFromJsonValue \/ PosFromXY \/ PosX \/ PosY

SpecPos == InitPos /\ [][NextPos]_vars

(***************************************************************************)
(* Properties of the FeatureCollection protocol, checked under Spec.       *)
(***************************************************************************)
Encoded == enc \in {"to_json_object", "serialize"}
Parsed == dec # "none"
NonReserved(o) == SelectSeq(o, LAMBDA e : e[1] \notin Reserved)

\* The data model's FeatureCollection: a bbox of finite numbers, and
\* foreign members that are absent or a non-empty mapping with no reserved key.
FiniteBbox(b) == b.some => \A i \in 1..Len(b.v) : b.v[i] \in Finite
ProperMembers(m) == m.some => m.v # <<>> /\ KeysOf(m.v) \cap Reserved = {}
WellFormed(c) == FiniteBbox(c.bbox) /\ ProperMembers(c.foreign_members)

\* C1 as stated: every FeatureCollection, whatever its bbox, features and
\* foreign_members, comes back equal field by field from from_json_object of
\* the object that JsonObject::from or the Serialize implementation produced.
C1_RoundTripEvery ==
    (Encoded /\ dec = "from_json_object")
        => result.r = "Ok" /\ FcEq(result.v, fc)

\* C1 amended: the round trip through JsonObject::from or Serialize and
\* from_json_object returns an equal FeatureCollection (bbox, features in
\* order, foreign members in order) for every FeatureCollection whose bbox
\* numbers are finite and whose foreign_members is None or a non-empty
\* mapping without the keys "type", "bbox", "features".
C1_RoundTripWellFormed ==
    (Encoded /\ dec = "from_json_object" /\ WellFormed(fc))
        => /\ result.r = "Ok"
           /\ FcEq(result.v, fc)
           /\ result.v = fc

C1_Witness ==
    /\ enc = "serialize"
    /\ dec = "from_json_object"
    /\ fc.bbox = Some(<<"1.5", "2.5">>)
    /\ fc.features = <<"f2", "f1">>
    /\ fc.foreign_members = Some(<< <<"b", Str("s")>>, <<"a", Num("1.5")>> >>)
    /\ result = Ok(fc)

\* The tag expect_type finds in an object: "" when there is none.
HasStringTag(o) == "type" \in KeysOf(o) /\ Get(o, "type").t = "str"
TagOf(o) == IF HasStringTag(o) THEN Get(o, "type").s ELSE ""
WrongTag(o) == ~(HasStringTag(o) /\ Get(o, "type").s = "FeatureCollection")

\* C2: an object whose "type" is not exactly the string "FeatureCollection"
\* (missing, another string, no string) fails with
\* ExpectedType{expected: "FeatureCollection", actual: the tag found},
\* whatever its "bbox" and "features" hold.
C2_TypeTagFirst ==
    (Parsed /\ json.t = "obj" /\ WrongTag(json.o))
        => result = Err([kind |-> "ExpectedType",
                         expected |-> "FeatureCollection",
                         actual |-> TagOf(json.o)])

\* A wrong tag together with a malformed bbox and no features.
C2_Witness ==
    /\ dec = "from_json_object"
    /\ json = Obj(<< <<"bbox", Str("x")>>, <<"type", Str("Feature")>> >>)
    /\ result.r = "Err"
    /\ result.e.kind = "ExpectedType"
    /\ result.e.actual = "Feature"

\* C3: from_json_value fails with GeoJsonExpectedObject carrying the input
\* value when the value is no object, and returns what from_json_object
\* returns on the contained object when it is one.
C3_ValueDelegates ==
    (dec = "from_json_value")
        => IF json.t = "obj"
           THEN result = from_json_object(json.o)
           ELSE result = Err([kind |-> "GeoJsonExpectedObject", value |-> json])

C3_Witness ==
    /\ dec = "from_json_value"
    /\ json = Str("FeatureCollection")
    /\ result.r = "Err"
    /\ result.e.kind = "GeoJsonExpectedObject"
    /\ result.e.value = Str("FeatureCollection")

\* Where the foreign-member entries start in the entries Serialize emits.
ForeignAt(c) == IF c.bbox.some THEN 2 ELSE 1
ForeignCount(c) == IF c.foreign_members.some THEN Len(c.foreign_members.v) ELSE 0

C5_ObjectKeysEvery ==
    (enc = "to_json_object")
        => /\ KeySeq(json.o) =
                 <<"type", "features">>
                    \o (IF fc.bbox.some THEN <<"bbox">> ELSE <<>>)
                    \o (IF fc.foreign_members.some
                        THEN KeySeq(fc.foreign_members.v) ELSE <<>>)
           /\ Get(json.o, "type") = Str("FeatureCollection")

\* C5 amended: for a FeatureCollection none of whose foreign members is
\* named "type", "bbox" or "features", the keys of JsonObject::from(&fc)
\* are "type" (holding "FeatureCollection"), "features", "bbox" if bbox is
\* Some, then the foreign-member keys in stored order; with bbox None,
\* no features and no foreign members the object is exactly
\* {"type": "FeatureCollection", "features": []}.
C5_ObjectKeys ==
    (enc = "to_json_object"
        /\ (fc.foreign_members.some => KeysOf(fc.foreign_members.v) \cap Reserved = {}))
        => /\ KeySeq(json.o) =
                 <<"type", "features">>
                    \o (IF fc.bbox.some THEN <<"bbox">> ELSE <<>>)
                    \o (IF fc.foreign_members.some
                        THEN KeySeq(fc.foreign_members.v) ELSE <<>>)
           /\ Get(json.o, "type") = Str("FeatureCollection")
           /\ fc = EmptyFc =>
                 json = Obj(<< <<"type", Str("FeatureCollection")>>,
                               <<"features", Arr(<<>>)>> >>)

C5_Witness ==
    /\ enc = "to_json_object"
    /\ fc.bbox.some
    /\ fc.foreign_members.some
    /\ KeySeq(json.o) = <<"type", "features", "bbox", "b", "a">>

\* C6: after a successful parse, foreign_members holds exactly the entries
\* of the input object whose key is not "type", "bbox" or "features", values
\* unchanged, in input order, and is None when there is no such entry.
C6_ForeignMembers ==
    (Parsed /\ json.t = "obj" /\ result.r = "Ok")
        => result.v.foreign_members =
              IF NonReserved(json.o) = <<>> THEN None
              ELSE Some(NonReserved(json.o))

\* Two foreign members around the reserved keys of a received object.
C6_Witness ==
    /\ enc = "received"
    /\ dec = "from_json_object"
    /\ KeySeq(json.o) = <<"b", "type", "a", "features">>
    /\ result.r = "Ok"
    /\ result.v.foreign_members = Some(<< <<"b", Num("1.5")>>, <<"a", Str("s")>> >>)

EvenFromFour(n) == n >= 4 /\ n % 2 = 0

\* C7: every FeatureCollection a parse returns has bbox None or a bbox of
\* even length, at least 4; a "bbox" array of any other length never comes
\* back as the bbox of a returned FeatureCollection.
C7_BboxShape ==
    /\ (Parsed /\ result.r = "Ok" /\ result.v.bbox.some)
          => EvenFromFour(Len(result.v.bbox.v))
    /\ (Parsed /\ json.t = "obj" /\ "bbox" \in KeysOf(json.o)
            /\ Get(json.o, "bbox").t = "arr"
            /\ ~EvenFromFour(Len(Get(json.o, "bbox").a)))
          => ~(result.r = "Ok" /\ result.v.bbox.some)

(***************************************************************************)
(* Properties of Position, checked under SpecPos.                          *)
(***************************************************************************)
Arity(r) == CASE r = "Tuple2" -> 2 [] r = "Tuple3" -> 3 [] OTHER -> 0
IsNumArray(j) == j.t = "arr" /\ \A i \in 1..Len(j.a) : j.a[i].t = "num"
\* f64 == f64
F64Eq(u, v) == u = v /\ u # NaN

\* C8: from_json_value returns Ok only for an array of numbers whose length
\* is the arity of a fixed representation, holding the elements in order; a
\* value that is no array, or an array with an element that is no number,
\* fails with a type-mismatch error for every representation and length; a
\* length other than the arity of a fixed representation does not return Ok.
C8_FromJsonValue ==
    (made = "from_json_value")
        => /\ pos.r = "Ok" =>
                 /\ IsNumArray(coords)
                 /\ rp # "Vec" => Len(coords.a) = Arity(rp)
                 /\ pos.v = [i \in 1..Len(coords.a) |-> coords.a[i].n]
           /\ ~IsNumArray(coords) =>
                 pos.r = "Err" /\ pos.e.kind = "TypeMismatch"
           /\ (coords.t = "arr" /\ rp # "Vec" /\ Len(coords.a) # Arity(rp)) =>
                 pos.r # "Ok"

\* C9: x() and y() never abort: on every position built by from_json_value
\* or from_x_y, of any representation, x() returns ordinate 0 and y()
\* ordinate 1.
C9_AccessorsNeverFail ==
    /\ xres # NoResult => xres.r = "Ok" /\ Len(pos.v) >= 1 /\ xres.v = pos.v[1]
    /\ yres # NoResult => yres.r = "Ok" /\ Len(pos.v) >= 2 /\ yres.v = pos.v[2]

IsPair(j) == IsNumArray(j) /\ Len(j.a) = 2

\* C10 as stated: for each of the three representations, from_json_value of
\* [a, b] returns a position with x() == a and y() == b, and so does
\* from_x_y(a, b).
C10_RoundTripEvery ==
    /\ (made = "from_json_value" /\ IsPair(coords)) =>
          /\ pos.r = "Ok"
          /\ xres # NoResult => xres.r = "Ok" /\ F64Eq(xres.v, coords.a[1].n)
          /\ yres # NoResult => yres.r = "Ok" /\ F64Eq(yres.v, coords.a[2].n)
    /\ (made = "from_x_y") =>
          /\ pos.r = "Ok"
          /\ xres # NoResult => xres.r = "Ok" /\ F64Eq(xres.v, ax)
          /\ yres # NoResult => yres.r = "Ok" /\ F64Eq(yres.v, ay)

\* C10 amended: for Vec<f64> and (f64, f64) and all ordinates a, b other
\* than NaN, from_json_value of [a, b] returns a position with x() == a and
\* y() == b, and so does from_x_y(a, b); for (f64, f64, f64) both calls abort
\* ("not implemented") and return no position.
C10_RoundTrip ==
    /\ (rp # "Tuple3" /\ made = "from_json_value" /\ IsPair(coords)) =>
          /\ pos = Ok(<<coords.a[1].n, coords.a[2].n>>)
          /\ xres # NoResult => xres.r = "Ok" /\ F64Eq(xres.v, coords.a[1].n)
          /\ yres # NoResult => yres.r = "Ok" /\ F64Eq(yres.v, coords.a[2].n)
    /\ (rp # "Tuple3" /\ made = "from_x_y" /\ ax # NaN /\ ay # NaN) =>
          /\ pos = Ok(<<ax, ay>>)
          /\ xres # NoResult => xres.r = "Ok" /\ F64Eq(xres.v, ax)
          /\ yres # NoResult => yres.r = "Ok" /\ F64Eq(yres.v, ay)
    /\ (rp = "Tuple3" /\ made = "from_json_value" /\ IsPair(coords)) =>
          pos = Panic("not implemented")
    /\ (rp = "Tuple3" /\ made = "from_x_y") =>
          pos = Panic("not implemented")

\* [1.5, 2.5] parsed as (f64, f64), both accessors read.
C10_Witness ==
    /\ rp = "Tuple2"
    /\ made = "from_json_value"
    /\ coords = Arr(<<Num("1.5"), Num("2.5")>>)
    /\ xres = Ok("1.5")
    /\ yres = Ok("2.5")
=============================================================================
